---------------------------- MODULE Spec2Model ----------------------------
(***************************************************************************)
(* The ZION Lightning bridge (src/bridge/main.go): the POST /api/v1/pay    *)
(* handler and ZionLightningBridge.PayInvoice, with the two systems the    *)
(* bridge talks to: the Lightning node behind lnrpc.LightningClient and    *)
(* the ZION node behind ZionRPCClient.                                     *)
(*                                                                         *)
(* gin serves every request on a goroutine of its own, so the requests are *)
(* processes; a request's position is the external call it is about to    *)
(* issue.  PayInvoice holds no lock and keeps no state between calls, so   *)
(* the external calls of different requests interleave freely.             *)
(***************************************************************************)
EXTENDS Integers, Sequences, FiniteSets

\* ------------------------------------------------------------------ bounds
\* Number of POST /api/v1/pay requests served.
MaxCalls == 2

Calls == 1..MaxCalls

\* ------------------------------------------------------- program constants
\* ZionRPCClient.GetBalance's mock balance.
MockBalance == 1000000

\* The destination of every deduction.
LightningPool == "lightning_pool_address"

\* HTTP statuses of handlePayInvoice; NoStatus: no response written yet.
NoStatus == 0
StatusOK == 200
StatusBadRequest == 400
StatusInternalServerError == 500

\* PayInvoice's return value: nil, or the error a fmt.Errorf builds.
Nil == "nil"
ErrDecode == "cannot decode invoice"
ErrGetBalance == "cannot get ZION balance"
ErrInsufficient == "insufficient ZION balance"
ErrLightning == "lightning payment failed"
ErrPayment == "payment error"

\* ------------------------------------------------------------ request data
\* Invoices are opaque payment-request strings; the node decodes each to its
\* amount.  One invoice asks for half the mock balance plus one, one for more
\* than the mock balance.
Invoices == {"lnbc_half", "lnbc_over"}

Addresses == {"Z1", "Z2"}

\* lnrpc DecodePayReq: PayReq.NumSatoshis of a decodable invoice.
NumSatoshisOf(invoice) ==
    IF invoice = "lnbc_half" THEN MockBalance \div 2 + 1 ELSE MockBalance + 1

\* PaymentRequest.Amount is `omitempty`: 0 is a request that carries no
\* amount; the other is an amount neither invoice asks for.  PayInvoice is
\* not handed the field, so no more values are told apart.
ReqAmounts == {0, MockBalance \div 2}

\* The PaymentRequest values ShouldBindJSON can produce.
PaymentRequest == [Invoice : Invoices, ZionAddress : Addresses, Amount : ReqAmounts]

NoRequest == [Invoice |-> "", ZionAddress |-> "", Amount |-> 0]

\* Value of a local variable not assigned yet.
Unset == 0 - 1

\* The external calls PayInvoice issues.
ExternalCalls == {"DecodePayReq", "GetBalance", "SendPaymentSync", "SendTransaction"}

\* What SendPaymentSync gave back to PayInvoice: a response with an empty
\* PaymentError, a response with a PaymentError, an error saying the payment
\* was not sent, or an error (timeout, broken connection) that does not say
\* whether it was.
LnOutcomes == {"ok", "payment_error", "error", "timeout"}

\* Error results of a ZionRPCClient call.  The client as built is a stub that
\* never fails; PayInvoice handles an error from both of its methods.
StubErrors == {FALSE}
RPCErrors == BOOLEAN

VARIABLES
    pc,          \* per request: "idle", the external call it issues next, "done"
    req,         \* per request: the bound PaymentRequest
    numSatoshis, \* per request: payReq.NumSatoshis
    balance,     \* per request: PayInvoice's local balance
    err,         \* per request: PayInvoice's return value
    status,      \* per request: the HTTP status written
    issued,      \* history: per request, how often each external call was issued
    lnOutcome,   \* history: per request, what SendPaymentSync returned
    paid,        \* history: per request, whether the node settled its payment
    txOutcome,   \* history: per request, what SendTransaction returned
    raced,       \* history: per request, the requests that had passed their balance
                 \* check, with their deduction still to come, when it passed its own
    lndSettled,  \* Lightning node: payments settled per invoice
    zionLog      \* ZION side: the transactions SendTransaction issued

vars == <<pc, req, numSatoshis, balance, err, status, issued, lnOutcome, paid,
          txOutcome, raced, lndSettled, zionLog>>

Init ==
    /\ pc = [c \in Calls |-> "idle"]
    /\ req = [c \in Calls |-> NoRequest]
    /\ numSatoshis = [c \in Calls |-> Unset]
    /\ balance = [c \in Calls |-> Unset]
    /\ err = [c \in Calls |-> Nil]
    /\ status = [c \in Calls |-> NoStatus]
    /\ issued = [c \in Calls |-> [k \in ExternalCalls |-> 0]]
    /\ lnOutcome = [c \in Calls |-> "none"]
    /\ paid = [c \in Calls |-> FALSE]
    /\ txOutcome = [c \in Calls |-> "none"]
    /\ raced = [c \in Calls |-> {}]
    /\ lndSettled = [i \in Invoices |-> 0]
    /\ zionLog = <<>>

\* ---------------------------------------------------------------- helpers
Issue(c, k) == [issued EXCEPT ![c][k] = @ + 1]

\* ZionRPCClient.GetBalance: the mock balance, whatever the address.
GetBalance(address) == MockBalance

\* PayInvoice's balance check.
InsufficientFundsOffByOne(bal, amount) == bal + 1 < amount
InsufficientFunds(bal, amount) == bal < amount

\* PayInvoice's two checks of SendPaymentSync's result: err != nil, then
\* payment.PaymentError != "".
LightningFailedIgnoresPaymentError(outcome) == outcome \in {"error", "timeout"}
LightningFailedIgnoresErr(outcome) == outcome = "payment_error"
LightningFailed(outcome) == outcome \in {"error", "timeout", "payment_error"}

\* The error PayInvoice returns for a failed SendPaymentSync.
LightningError(outcome) == IF outcome = "payment_error" THEN ErrPayment ELSE ErrLightning

\* ZionRPCClient.SendTransaction: the transaction is logged.
SendTransactionTwice(log, from, to, amount, c) ==
    log \o << [from |-> from, to |-> to, amount |-> amount, by |-> c],
              [from |-> from, to |-> to, amount |-> amount, by |-> c] >>
SendTransaction(log, from, to, amount, c) ==
    Append(log, [from |-> from, to |-> to, amount |-> amount, by |-> c])

\* handlePayInvoice's response to PayInvoice's return value.
ResponseStatus(e) == IF e # Nil THEN StatusInternalServerError ELSE StatusOK

\* PayInvoice returns e and handlePayInvoice writes the response.
Return(c, e) ==
    /\ err' = [err EXCEPT ![c] = e]
    /\ status' = [status EXCEPT ![c] = ResponseStatus(e)]
    /\ pc' = [pc EXCEPT ![c] = "done"]

\* The requests between their balance check and their deduction.
InWindow == {d \in Calls : pc[d] \in {"SendPaymentSync", "SendTransaction"}}

\* ---------------------------------------------------------------- actions
\* handlePayInvoice up to the call of PayInvoice: bind the JSON body.
handlePayInvoice(c) ==
    /\ pc[c] = "idle"
    /\ \E bound \in BOOLEAN, r \in PaymentRequest :
         IF ~bound
         THEN /\ status' = [status EXCEPT ![c] = StatusBadRequest]
              /\ pc' = [pc EXCEPT ![c] = "done"]
              /\ UNCHANGED req
         ELSE /\ req' = [req EXCEPT ![c] = r]
              /\ pc' = [pc EXCEPT ![c] = "DecodePayReq"]
              /\ UNCHANGED status
    /\ UNCHANGED <<numSatoshis, balance, err, issued, lnOutcome, paid, txOutcome,
                   raced, lndSettled, zionLog>>

\* PayInvoice: decode the invoice to get its amount.
DecodePayReq(c) ==
    /\ pc[c] = "DecodePayReq"
    /\ issued' = Issue(c, "DecodePayReq")
    /\ \E failed \in BOOLEAN :
         IF failed
         THEN /\ Return(c, ErrDecode)
              /\ UNCHANGED numSatoshis
         ELSE /\ numSatoshis' = [numSatoshis EXCEPT ![c] = NumSatoshisOf(req[c].Invoice)]
              /\ pc' = [pc EXCEPT ![c] = "GetBalance"]
              /\ UNCHANGED <<err, status>>
    /\ UNCHANGED <<req, balance, lnOutcome, paid, txOutcome, raced, lndSettled, zionLog>>

\* PayInvoice: check the ZION balance.
CheckBalance(c, errors) ==
    /\ pc[c] = "GetBalance"
    /\ issued' = Issue(c, "GetBalance")
    /\ \E failed \in errors :
         IF failed
         THEN /\ Return(c, ErrGetBalance)
              /\ UNCHANGED <<balance, raced>>
         ELSE /\ balance' = [balance EXCEPT ![c] = GetBalance(req[c].ZionAddress)]
              /\ IF InsufficientFunds(balance'[c], numSatoshis[c])
                 THEN /\ Return(c, ErrInsufficient)
                      /\ UNCHANGED raced
                 ELSE /\ pc' = [pc EXCEPT ![c] = "SendPaymentSync"]
                      /\ raced' = [raced EXCEPT ![c] = InWindow \ {c}]
                      /\ UNCHANGED <<err, status>>
    /\ UNCHANGED <<req, numSatoshis, lnOutcome, paid, txOutcome, lndSettled, zionLog>>

\* PayInvoice: send the Lightning payment.  The node settles a payment it
\* reports as sent, and may or may not have settled one whose call timed out.
SendPaymentSync(c) ==
    /\ pc[c] = "SendPaymentSync"
    /\ issued' = Issue(c, "SendPaymentSync")
    /\ \E outcome \in LnOutcomes, settled \in BOOLEAN :
         /\ outcome = "ok" => settled
         /\ outcome \in {"error", "payment_error"} => ~settled
         /\ lnOutcome' = [lnOutcome EXCEPT ![c] = outcome]
         /\ paid' = [paid EXCEPT ![c] = settled]
         /\ lndSettled' = [lndSettled EXCEPT ![req[c].Invoice] = @ + (IF settled THEN 1 ELSE 0)]
         /\ IF LightningFailed(outcome)
            THEN Return(c, LightningError(outcome))
            ELSE /\ pc' = [pc EXCEPT ![c] = "SendTransaction"]
                 /\ UNCHANGED <<err, status>>
    /\ UNCHANGED <<req, numSatoshis, balance, txOutcome, raced, zionLog>>

\* PayInvoice: deduct from the ZION balance; a failure is logged only, and
\* PayInvoice returns nil either way.
DeductZion(c, errors) ==
    /\ pc[c] = "SendTransaction"
    /\ issued' = Issue(c, "SendTransaction")
    /\ \E failed \in errors :
         IF failed
         THEN /\ txOutcome' = [txOutcome EXCEPT ![c] = "error"]
              /\ UNCHANGED zionLog
         ELSE /\ txOutcome' = [txOutcome EXCEPT ![c] = "ok"]
              /\ zionLog' = SendTransaction(zionLog, req[c].ZionAddress, LightningPool,
                                            numSatoshis[c], c)
    /\ Return(c, Nil)
    /\ UNCHANGED <<req, numSatoshis, balance, lnOutcome, paid, raced, lndSettled>>

\* The bridge as built: ZionRPCClient is the stub.
Next ==
    \E c \in Calls :
        \/ handlePayInvoice(c)
        \/ DecodePayReq(c)
        \/ CheckBalance(c, StubErrors)
        \/ SendPaymentSync(c)
        \/ DeductZion(c, StubErrors)

Spec == Init /\ [][Next]_vars

\* The bridge with a ZION RPC that can fail: the errors PayInvoice handles.
FaultNext ==
    \E c \in Calls :
        \/ handlePayInvoice(c)
        \/ DecodePayReq(c)
        \/ CheckBalance(c, RPCErrors)
        \/ SendPaymentSync(c)
        \/ DeductZion(c, RPCErrors)

FaultSpec == Init /\ [][FaultNext]_vars

\* ------------------------------------------------- what the claims speak of
\* The transactions a request's SendTransaction put on the ZION side.
DebitsOf(c) == SelectSeq(zionLog, LAMBDA t : t.by = c)

\* The transactions that take ZION from an address.
DebitsFrom(a) == SelectSeq(zionLog, LAMBDA t : t.from = a)

RECURSIVE SumAmounts(_)
SumAmounts(log) == IF log = <<>> THEN 0 ELSE Head(log).amount + SumAmounts(Tail(log))

\* Every request that arrived has been answered.
Quiescent == \A c \in Calls : pc[c] \in {"idle", "done"}

\* lnrpc calls that ask the node what became of a payment.
StatusQueryCalls == {"LookupPayment", "TrackPaymentV2", "ListPayments"}

StatusQueried(c) == \E k \in StatusQueryCalls \cap DOMAIN issued[c] : issued[c][k] > 0

\* The step a request in flight takes next, with a ZION RPC that can fail.
Step(c) ==
    \/ DecodePayReq(c)
    \/ CheckBalance(c, RPCErrors)
    \/ SendPaymentSync(c)
    \/ DeductZion(c, RPCErrors)

\* ------------------------------------------------------------------ claims

\* C1: once every call has returned, no payment is settled on Lightning
\* without its ZION deduction of the invoice amount, and no ZION deduction is
\* applied for a payment Lightning did not settle.  Stated for the calls
\* whose SendPaymentSync gave a definite answer; C9 is about the others.
C1_NoPermanentDivergence ==
    Quiescent =>
        \A c \in Calls :
            lnOutcome[c] # "timeout" =>
                /\ paid[c] => SumAmounts(DebitsOf(c)) = numSatoshis[c]
                /\ DebitsOf(c) # <<>> => paid[c]

\* C2: when GetBalance returns less than the decoded invoice amount,
\* PayInvoice returns the insufficient-balance error and issues neither
\* SendPaymentSync nor SendTransaction.
C2_InsufficientFundsRejected ==
    \A c \in Calls :
        (balance[c] # Unset /\ balance[c] < numSatoshis[c]) =>
            /\ pc[c] = "done"
            /\ err[c] = ErrInsufficient
            /\ status[c] = StatusInternalServerError
            /\ issued[c]["SendPaymentSync"] = 0
            /\ issued[c]["SendTransaction"] = 0
            /\ ~paid[c]
            /\ DebitsOf(c) = <<>>

C2_Witness ==
    \E c \in Calls :
        /\ balance[c] # Unset
        /\ balance[c] < numSatoshis[c]
        /\ pc[c] = "done"

\* C3: a PayInvoice call whose SendPaymentSync returned an error or a
\* non-empty PaymentError issues no SendTransaction, takes nothing from the
\* ZION address, and returns an error.
C3_FailedLightningLeavesLedger ==
    \A c \in Calls :
        lnOutcome[c] \in {"error", "timeout", "payment_error"} =>
            /\ issued[c]["SendTransaction"] = 0
            /\ txOutcome[c] = "none"
            /\ DebitsOf(c) = <<>>
            /\ pc[c] = "done"
            /\ err[c] \in {ErrLightning, ErrPayment}

C3_Witness ==
    \E c, d \in Calls :
        /\ lnOutcome[c] = "payment_error"
        /\ lnOutcome[d] = "error"
        /\ pc[c] = "done"
        /\ pc[d] = "done"

C5_ConcurrentSettlementsCannotOverdraw ==
    \A c, d \in Calls :
        ( /\ c # d
          /\ d \in raced[c]
          /\ req[c].ZionAddress = req[d].ZionAddress
          /\ numSatoshis[c] = MockBalance \div 2 + 1
          /\ numSatoshis[d] = MockBalance \div 2 + 1 ) =>
            /\ ~(status[c] = StatusOK /\ status[d] = StatusOK)
            /\ SumAmounts(DebitsFrom(req[c].ZionAddress)) <= MockBalance

\* C6: when the Lightning payment succeeded and the ZION deduction failed,
\* the caller is not told that the payment completed.
C6_FailedDebitNotReportedComplete ==
    \A c \in Calls :
        (lnOutcome[c] = "ok" /\ txOutcome[c] = "error" /\ pc[c] = "done") =>
            status[c] # StatusOK

\* C7: a pay request that carries an amount different from the amount its
\* invoice decodes to is rejected: no SendPaymentSync, no SendTransaction, no
\* success response.
C7_AmountMismatchRejected ==
    \A c \in Calls :
        (req[c].Amount # 0 /\ numSatoshis[c] # Unset /\ numSatoshis[c] # req[c].Amount) =>
            /\ issued[c]["SendPaymentSync"] = 0
            /\ issued[c]["SendTransaction"] = 0
            /\ status[c] # StatusOK

\* C8: across all PayInvoice calls with one invoice, SendPaymentSync succeeds
\* at most once, and at most one payment of the invoice is settled.
C8_AtMostOnceLightningLeg ==
    \A i \in Invoices :
        /\ Cardinality({c \in Calls : req[c].Invoice = i /\ lnOutcome[c] = "ok"}) <= 1
        /\ lndSettled[i] <= 1

\* C9: a PayInvoice call whose SendPaymentSync ended in a timeout does not
\* return the payment as failed; it has asked the node for the payment's
\* status.
C9_TimeoutResolvedByStatusQuery ==
    \A c \in Calls :
        (lnOutcome[c] = "timeout" /\ pc[c] = "done") =>
            /\ err[c] # ErrLightning
            /\ StatusQueried(c)

\* C10: within one PayInvoice call every external call is issued at most
\* once; SendPaymentSync is issued only when DecodePayReq has succeeded and
\* GetBalance has returned at least the decoded amount; SendTransaction is
\* issued only when SendPaymentSync has returned without error and with an
\* empty PaymentError.
C10_LegOrdering ==
    [][\A c \in Calls : \A k \in ExternalCalls :
          issued'[c][k] # issued[c][k] =>
             /\ issued[c][k] = 0
             /\ issued'[c][k] = 1
             /\ k = "GetBalance" => issued[c]["DecodePayReq"] = 1 /\ numSatoshis[c] # Unset
             /\ k = "SendPaymentSync" =>
                   /\ issued[c]["DecodePayReq"] = 1
                   /\ issued[c]["GetBalance"] = 1
                   /\ numSatoshis[c] # Unset
                   /\ balance[c] # Unset
                   /\ balance[c] >= numSatoshis[c]
             /\ k = "SendTransaction" =>
                   /\ issued[c]["SendPaymentSync"] = 1
                   /\ lnOutcome[c] = "ok"]_vars

C10_Witness ==
    \E c \in Calls : \A k \in ExternalCalls : issued[c][k] = 1

=============================================================================
